---- MODULE Spec2Model ----
(***************************************************************************)
(* A model of pg-data-validator.py: main() walks the databases of the      *)
(* configuration, opens one connection per database, and dispatches every  *)
(* validator of that database to run_printer, run_table_exists,            *)
(* run_count_check or run_includes_check.                                  *)
(*                                                                         *)
(* The configuration is read once and never changes.  main() reads each    *)
(* database entry once (line 166) and each validator once (line 172), so   *)
(* the model draws an entry when the loop reaches it.  What the database   *)
(* server answers (connect, SET search_path, a query) is drawn when the    *)
(* call is made.                                                           *)
(***************************************************************************)
EXTENDS Integers, Sequences, FiniteSets, TLC

\* ------------------------------------------------------------- bounds
MaxDbs == 2        \* databases in the configuration
MaxChecks == 2     \* validators per database
MaxVal == 2        \* integer values are 0..MaxVal
MaxRows == 2       \* rows of a result set, entries of a configured list

\* ------------------------------------------------------ Python values
\* None (JSON null, SQL NULL, a key that .get() did not find) and integers.
PyNone == [t |-> "none", v |-> 0]
PyInt(n) == [t |-> "int", v |-> n]
PyValues == {PyNone} \cup {PyInt(n) : n \in 0..MaxVal}

\* A JSON array is a Python list, a psycopg row is a Python tuple; a list
\* never equals a tuple, and a list cannot be a member of a set.
PyList(s) == [k |-> "list", items |-> s]
PyTuple(s) == [k |-> "tuple", items |-> s]

\* tuple(row), lines 132-133.
tuple(row) == [k |-> "tuple", items |-> row.items]

\* Sequences over S of length 0..n.
SeqUpTo(S, n) == UNION {[1..m -> S] : m \in 0..n}

\* Strings standing for a dictionary key that is absent and for a null.
Absent == "<absent>"
Null == "<null>"

\* Python truthiness of a configured string (line 38).
Truthy(s) == s \notin {Absent, Null, ""}

\* ---------------------------------------------------------- OPERATORS
OperatorSymbols == {"=", "!=", ">", ">=", "<", "<="}

\* operator.lt and friends raise TypeError unless both sides are ordered
\* against each other; operator.eq and operator.ne never raise.
OpRaises(sym, a, b) ==
    sym \in {">", ">=", "<", "<="} /\ ~(a.t = "int" /\ b.t = "int")

\* A variant of OPERATORS with operator.gt under ">=".
OPERATORS_GeAsGt(sym, a, b) ==
    CASE sym = "="  -> a = b
      [] sym = "!=" -> a # b
      [] sym = ">"  -> a.v > b.v
      [] sym = ">=" -> a.v > b.v
      [] sym = "<"  -> a.v < b.v
      [] sym = "<=" -> a.v <= b.v

\* The OPERATORS table, lines 14-21, applied.
OPERATORS(sym, a, b) ==
    CASE sym = "="  -> a = b
      [] sym = "!=" -> a # b
      [] sym = ">"  -> a.v > b.v
      [] sym = ">=" -> a.v >= b.v
      [] sym = "<"  -> a.v < b.v
      [] sym = "<=" -> a.v <= b.v

\* ------------------------------------------------------------ results
\* What one executor call did: the value it returned ("pass" True, "fail"
\* False, "na" None), the diagnostic it logged, the missing tables or
\* values it reported, whether cursor.execute was called and with which
\* schema parameter, the levels of the log records it emitted, and whether
\* an exception left the call.
Result(outcome, diag, log) ==
    [outcome |-> outcome, diag |-> diag, log |-> log,
     missing_tables |-> <<>>, missing |-> {},
     queried |-> FALSE, schema |-> Absent, escaped |-> FALSE]

\* ------------------------------------------------------------ printer
\* resp: what the server answers to the query, [err, rows].
run_printer(resp) ==
    IF resp.err
    THEN [Result("na", "printer_error", <<"info", "info", "info", "error">>)
            EXCEPT !.queried = TRUE]
    ELSE [Result("na", "rows_printed",
                 <<"info", "info", "info", "info">>
                   \o [i \in 1..Len(resp.rows) |-> "info"])
            EXCEPT !.queried = TRUE]

\* ------------------------------------------------------- table exists
Tables == {"orders", "users"}
Schemas == {"public", "app", "other"}

\* The rows the catalog query of lines 72-79 returns for a schema parameter:
\* one row per base table of that schema, none for a schema that does not
\* exist (or for a NULL or empty parameter).
RECURSIVE RowsOf(_)
RowsOf(S) ==
    IF S = {} THEN <<>>
    ELSE LET x == CHOOSE y \in S : TRUE
         IN <<PyTuple(<<x>>)>> \o RowsOf(S \ {x})

CatalogRows(catalog, schema) ==
    IF schema \in DOMAIN catalog THEN RowsOf(catalog[schema]) ELSE <<>>

\* [t for t in required_tables if t not in existing_tables], line 81.
RECURSIVE MissingTables(_, _)
MissingTables(required_tables, existing_tables) ==
    IF required_tables = <<>> THEN <<>>
    ELSE LET t == Head(required_tables)
             rest == MissingTables(Tail(required_tables), existing_tables)
         IN IF t \notin existing_tables THEN <<t>> \o rest ELSE rest

\* A variant of run_table_exists whose filter lost its "not".
run_table_exists_Present(resp, required_tables, schema) ==
    LET Q(r) == [r EXCEPT !.queried = TRUE, !.schema = schema]
    IN  IF resp.err
        THEN Q(Result("fail", "query_error", <<"info", "info", "error">>))
        ELSE LET rows == CatalogRows(resp.catalog, schema)
                 existing_tables == {rows[i].items[1] : i \in 1..Len(rows)}
                 missing_tables ==
                     SelectSeq(required_tables, LAMBDA t : t \in existing_tables)
             IN  IF missing_tables = <<>>
                 THEN Q(Result("pass", "none", <<"info", "info", "info">>))
                 ELSE [Q(Result("fail", "missing_tables",
                                <<"info", "info", "error">>))
                         EXCEPT !.missing_tables = missing_tables]

\* resp: [err, catalog], the server's answer: an error, or its catalog.
run_table_exists(resp, required_tables, schema) ==
    LET Q(r) == [r EXCEPT !.queried = TRUE, !.schema = schema]
    IN  IF resp.err
        THEN Q(Result("fail", "query_error", <<"info", "info", "error">>))
        ELSE LET rows == CatalogRows(resp.catalog, schema)
                 existing_tables == {rows[i].items[1] : i \in 1..Len(rows)}
                 missing_tables == MissingTables(required_tables, existing_tables)
             IN  IF missing_tables = <<>>
                 THEN Q(Result("pass", "none", <<"info", "info", "info">>))
                 ELSE [Q(Result("fail", "missing_tables",
                                <<"info", "info", "error">>))
                         EXCEPT !.missing_tables = missing_tables]

\* -------------------------------------------------------- count check
CountHead == <<"info", "info", "info", "info">>

\* A variant of run_count_check without the test of lines 107-109:
\* result[0] on None raises TypeError, caught at line 117.
run_count_check_NoNoneTest(resp, hasQuery, value, op_str) ==
    LET Q(r) == [r EXCEPT !.queried = TRUE]
    IN  IF op_str \notin OperatorSymbols
        THEN Result("fail", "unsupported_operator", CountHead \o <<"error">>)
        ELSE IF ~hasQuery \/ resp.err \/ resp.rows = <<>>
        THEN Q(Result("fail", "query_error", CountHead \o <<"error">>))
        ELSE LET actual_value == resp.rows[1].items[1]
             IN  IF OpRaises(op_str, actual_value, value)
                 THEN Q(Result("fail", "query_error", CountHead \o <<"error">>))
                 ELSE IF OPERATORS(op_str, actual_value, value)
                 THEN Q(Result("pass", "none", CountHead \o <<"info">>))
                 ELSE Q(Result("fail", "check_failed", CountHead \o <<"error">>))

\* resp: [err, rows]; hasQuery: the validator has a "query" (cursor.execute
\* raises on None); value and op_str as validator.get() returned them.
run_count_check(resp, hasQuery, value, op_str) ==
    LET Q(r) == [r EXCEPT !.queried = TRUE]
    IN  IF op_str \notin OperatorSymbols
        THEN Result("fail", "unsupported_operator", CountHead \o <<"error">>)
        ELSE IF ~hasQuery \/ resp.err
        THEN Q(Result("fail", "query_error", CountHead \o <<"error">>))
        ELSE IF resp.rows = <<>>
        THEN Q(Result("fail", "no_rows", CountHead \o <<"error">>))
        ELSE LET actual_value == resp.rows[1].items[1]
             IN  IF OpRaises(op_str, actual_value, value)
                 THEN Q(Result("fail", "query_error", CountHead \o <<"error">>))
                 ELSE IF OPERATORS(op_str, actual_value, value)
                 THEN Q(Result("pass", "none", CountHead \o <<"info">>))
                 ELSE Q(Result("fail", "check_failed", CountHead \o <<"error">>))

\* ----------------------------------------------------- includes check
IncludesHead == <<"info", "info", "info", "info">>

\* A variant of run_includes_check that compares the two sets for equality.
run_includes_check_Equal(resp, hasQuery, expected_values) ==
    LET Q(r) == [r EXCEPT !.queried = TRUE]
    IN  IF ~hasQuery \/ resp.err
        THEN Q(Result("fail", "query_error", IncludesHead \o <<"error">>))
        ELSE LET actual_rows == resp.rows
                 actual_set == {tuple(actual_rows[i]) : i \in 1..Len(actual_rows)}
                 expected_set ==
                     {tuple(expected_values[i]) : i \in 1..Len(expected_values)}
                 missing == (expected_set \ actual_set) \cup (actual_set \ expected_set)
             IN  IF missing = {}
                 THEN Q(Result("pass", "none", IncludesHead \o <<"info">>))
                 ELSE [Q(Result("fail", "missing_values", IncludesHead \o <<"error">>))
                         EXCEPT !.missing = missing]

\* resp: [err, rows]; expected_values: the validator's "values", a list of
\* lists.
run_includes_check(resp, hasQuery, expected_values) ==
    LET Q(r) == [r EXCEPT !.queried = TRUE]
    IN  IF ~hasQuery \/ resp.err
        THEN Q(Result("fail", "query_error", IncludesHead \o <<"error">>))
        ELSE LET actual_rows == resp.rows
                 actual_set == {tuple(actual_rows[i]) : i \in 1..Len(actual_rows)}
                 expected_set ==
                     {tuple(expected_values[i]) : i \in 1..Len(expected_values)}
                 missing == expected_set \ actual_set
             IN  IF missing = {}
                 THEN Q(Result("pass", "none", IncludesHead \o <<"info">>))
                 ELSE [Q(Result("fail", "missing_values", IncludesHead \o <<"error">>))
                         EXCEPT !.missing = missing]

\* --------------------------------------------------- create_connection
\* conn_config: the database entry's "connection" object, here its "schema"
\* (Absent, Null, "" or a name).  connectOk: psycopg.connect succeeds.
\* setOk: SET search_path succeeds.  Any failure is logged and ends the
\* process through sys.exit(1); opened tells whether psycopg.connect had
\* already returned a connection, which nothing closes on that path.
create_connection(conn_config, connectOk, setOk) ==
    IF ~connectOk
    THEN [status |-> "exit", opened |-> FALSE]
    ELSE IF Truthy(conn_config.schema) /\ ~setOk
    THEN [status |-> "exit", opened |-> TRUE]
    ELSE [status |-> "conn", opened |-> TRUE]

ConnSchemas == {Absent, Null, "", "app"}
ConnConfigs == [schema : ConnSchemas]
NoConnConfig == [schema |-> Absent]

\* ---------------------------------------------------------- validators
Items == {<<0>>, <<1>>, <<0, 1>>}

Validator(type) ==
    [type |-> type, hasQuery |-> TRUE, required_tables |-> <<>>,
     operator |-> Null, value |-> PyNone, values |-> <<>>, schema |-> Absent]

KnownTypes == {"PRINTER", "TABLE_EXISTS", "COUNT_CHECK", "INCLUDES_CHECK"}

\* "ROW_COUNT" stands for any type string main() does not know, Null for a
\* validator without "type".
UnknownTypes == {"ROW_COUNT", Null}

Validators ==
    {[Validator("PRINTER") EXCEPT !.hasQuery = q] : q \in BOOLEAN}
    \cup {[Validator("TABLE_EXISTS") EXCEPT !.required_tables = r, !.schema = s] :
             r \in SeqUpTo(Tables, MaxRows), s \in {Absent, "other"}}
    \cup {[Validator("COUNT_CHECK")
             EXCEPT !.hasQuery = q, !.operator = o, !.value = x] :
             q \in BOOLEAN, o \in OperatorSymbols \cup {"~", Null}, x \in PyValues}
    \cup {[Validator("INCLUDES_CHECK") EXCEPT !.hasQuery = q, !.values = e] :
             q \in BOOLEAN, e \in SeqUpTo({PyList(i) : i \in Items}, MaxRows)}
    \cup {Validator(t) : t \in UnknownTypes}

\* What the server can answer to a validator's query.
QueryError == [err |-> TRUE, rows |-> <<>>, catalog |-> <<>>]
Rows(rows) == [err |-> FALSE, rows |-> rows, catalog |-> <<>>]
Catalog(c) == [err |-> FALSE, rows |-> <<>>, catalog |-> c]

Responses(v) ==
    {QueryError} \cup
    CASE v.type = "PRINTER" ->
           {Rows([i \in 1..n |-> PyTuple(<<0>>)]) : n \in 0..MaxRows}
      [] v.type = "TABLE_EXISTS" ->
           {Catalog(c) : c \in [Schemas -> SUBSET Tables]}
      [] v.type = "COUNT_CHECK" ->
           {Rows(<<>>)} \cup {Rows(<<PyTuple(<<x>>)>>) : x \in PyValues}
      [] v.type = "INCLUDES_CHECK" ->
           {Rows(r) : r \in SeqUpTo({PyTuple(i) : i \in Items}, MaxRows)}
      [] OTHER -> {}

\* A variant of TableSchema that reads the schema from the validator first.
TableSchema_CheckFirst(conn_config, validator) ==
    IF validator.schema # Absent THEN validator.schema
    ELSE IF Truthy(conn_config.schema) THEN conn_config.schema
    ELSE "public"

\* conn_config.get("schema", "public"), line 177; the validator is not read.
TableSchema(conn_config, validator) ==
    IF conn_config.schema = Absent THEN "public" ELSE conn_config.schema

\* The body of the validator loop, lines 173-194.  validator["query"] of a
\* PRINTER without "query" raises KeyError, which nothing in main() catches.
Dispatch(validator, conn_config, resp) ==
    CASE validator.type = "PRINTER" ->
           IF ~validator.hasQuery
           THEN [Result("na", "none", <<>>) EXCEPT !.escaped = TRUE]
           ELSE run_printer(resp)
      [] validator.type = "TABLE_EXISTS" ->
           run_table_exists(resp, validator.required_tables,
                            TableSchema(conn_config, validator))
      [] validator.type = "COUNT_CHECK" ->
           run_count_check(resp, validator.hasQuery, validator.value,
                           validator.operator)
      [] validator.type = "INCLUDES_CHECK" ->
           run_includes_check(resp, validator.hasQuery, validator.values)
      [] OTHER -> Result("na", "none", <<>>)

\* --------------------------------------------------------------- state
VARIABLES
    pc,           \* "start", "databases" (line 166), "validators" (line 172),
                  \* "validated" (a loop body returned), "exit"
    exitCode,     \* the process exit status once pc = "exit", -1 before
    exitReason,   \* why the process ended
    loaded,       \* json.load returned the configuration
    ndbs,         \* len(config["databases"])
    dbi,          \* databases the outer loop has taken so far
    conn_config,  \* the current database's connection object
    nvalidation,  \* len(validations) of the current database
    vi,           \* validators the inner loop has taken so far
    open,         \* databases whose connection is open
    contacted,    \* databases create_connection was called for
    failed,       \* databases whose connection could not be set up
    completed,    \* databases whose validator loop ran to its end
    dispatched,   \* positions of the current database's validators taken, in order
    last          \* the validator taken last, the server's answer, the result

vars == <<pc, exitCode, exitReason, loaded, ndbs, dbi, conn_config, nvalidation,
          vi, open, contacted, failed, completed, dispatched, last>>

NoCheck ==
    [db |-> 0, idx |-> 0, v |-> Validator(Null), conn_config |-> NoConnConfig,
     resp |-> QueryError, res |-> Result("na", "none", <<>>)]

Init ==
    /\ pc = "start"
    /\ exitCode = -1
    /\ exitReason = "none"
    /\ loaded = FALSE
    /\ ndbs = 0
    /\ dbi = 0
    /\ conn_config = NoConnConfig
    /\ nvalidation = 0
    /\ vi = 0
    /\ open = {}
    /\ contacted = {}
    /\ failed = {}
    /\ completed = {}
    /\ dispatched = <<>>
    /\ last = NoCheck

Exit(code, reason) ==
    /\ pc' = "exit"
    /\ exitCode' = code
    /\ exitReason' = reason

\* Lines 156-161: open() raises FileNotFoundError.
ConfigNotFound ==
    /\ pc = "start"
    /\ Exit(1, "config_not_found")
    /\ UNCHANGED <<loaded, ndbs, dbi, conn_config, nvalidation, vi, open,
                   contacted, failed, completed, dispatched, last>>

\* Lines 162-164: json.load raises JSONDecodeError.
ConfigInvalid ==
    /\ pc = "start"
    /\ Exit(1, "config_invalid")
    /\ UNCHANGED <<loaded, ndbs, dbi, conn_config, nvalidation, vi, open,
                   contacted, failed, completed, dispatched, last>>

\* Lines 156-158: the configuration is read; it names n databases.
ConfigLoaded ==
    /\ pc = "start"
    /\ \E n \in 0..MaxDbs : ndbs' = n
    /\ loaded' = TRUE
    /\ pc' = "databases"
    /\ UNCHANGED <<exitCode, exitReason, dbi, conn_config, nvalidation, vi, open,
                   contacted, failed, completed, dispatched, last>>

\* Line 167: db["connection"] of an entry without "connection" raises
\* KeyError, which nothing catches: traceback, exit status 1.
MissingConnection ==
    /\ pc = "databases"
    /\ dbi < ndbs
    /\ dbi' = dbi + 1
    /\ Exit(1, "uncaught")
    /\ UNCHANGED <<loaded, ndbs, conn_config, nvalidation, vi, open, contacted,
                   failed, completed, dispatched, last>>

\* Lines 166-171: the next database entry is taken and create_connection is
\* called for it.
Connect ==
    /\ pc = "databases"
    /\ dbi < ndbs
    /\ \E cc \in ConnConfigs, n \in 0..MaxChecks, connectOk \in BOOLEAN,
          setOk \in BOOLEAN :
          LET c == create_connection(cc, connectOk, setOk)
              d == dbi + 1
          IN  /\ dbi' = d
              /\ conn_config' = cc
              /\ nvalidation' = n
              /\ vi' = 0
              /\ dispatched' = <<>>
              /\ contacted' = contacted \cup {d}
              /\ open' = IF c.opened THEN open \cup {d} ELSE open
              /\ failed' = IF c.status = "conn" THEN failed ELSE failed \cup {d}
              /\ IF c.status = "conn"
                 THEN pc' = "validators" /\ UNCHANGED <<exitCode, exitReason>>
                 ELSE Exit(1, "connect_failed")
    /\ UNCHANGED <<loaded, ndbs, completed, last>>

\* Lines 172-194: the next validator is taken and dispatched.  An exception
\* that leaves the loop body leaves both with blocks, whose __exit__ closes
\* the cursor and the connection, and ends the process with a traceback.
Validate ==
    /\ pc = "validators"
    /\ vi < nvalidation
    /\ \E v \in Validators :
         \E resp \in Responses(v) :
            LET r == Dispatch(v, conn_config, resp)
            IN  /\ last' = [db |-> dbi, idx |-> vi + 1, v |-> v,
                            conn_config |-> conn_config, resp |-> resp, res |-> r]
                /\ IF r.escaped
                   THEN /\ open' = open \ {dbi}
                        /\ Exit(1, "uncaught")
                   ELSE /\ pc' = "validated"
                        /\ UNCHANGED <<open, exitCode, exitReason>>
    /\ vi' = vi + 1
    /\ dispatched' = Append(dispatched, vi + 1)
    /\ UNCHANGED <<loaded, ndbs, dbi, conn_config, nvalidation, contacted, failed,
                   completed>>

\* Line 172: the loop body returned; control is back at the loop's head and
\* the iteration's validator and result are gone.
NextValidator ==
    /\ pc = "validated"
    /\ pc' = "validators"
    /\ last' = NoCheck
    /\ UNCHANGED <<exitCode, exitReason, loaded, ndbs, dbi, conn_config,
                   nvalidation, vi, open, contacted, failed, completed, dispatched>>

\* Lines 170-197: the validator loop is over; the with blocks close the
\* cursor and the connection.
CloseConnection ==
    /\ pc = "validators"
    /\ vi = nvalidation
    /\ open' = open \ {dbi}
    /\ completed' = completed \cup {dbi}
    /\ pc' = "databases"
    /\ UNCHANGED <<exitCode, exitReason, loaded, ndbs, dbi, conn_config,
                   nvalidation, vi, contacted, failed, dispatched, last>>

\* Line 166: no database is left; main() returns, exit status 0.
RunCompleted ==
    /\ pc = "databases"
    /\ dbi = ndbs
    /\ Exit(0, "completed")
    /\ UNCHANGED <<loaded, ndbs, dbi, conn_config, nvalidation, vi, open,
                   contacted, failed, completed, dispatched, last>>

Next ==
    \/ ConfigNotFound
    \/ ConfigInvalid
    \/ ConfigLoaded
    \/ MissingConnection
    \/ Connect
    \/ Validate
    \/ NextValidator
    \/ CloseConnection
    \/ RunCompleted

Spec == Init /\ [][Next]_vars

\* ------------------------------------------------------------- claims
Handled == last.db # 0
IsCheck(type) == Handled /\ last.v.type = type

\* The query of the handled validator was executed and answered with rows.
Answered == last.v.hasQuery /\ ~last.resp.err

\* C1: when the connection of database i cannot be set up, the run does not
\* end because of it, and every later database is still connected to and has
\* its validators run to the end.
C1_ConnectionFailureIsolated ==
    (pc = "exit" /\ failed # {}) =>
        /\ exitReason # "connect_failed"
        /\ \A i \in failed : \A j \in (i + 1)..ndbs :
              j \in contacted /\ (j \in failed \/ j \in completed)

\* C2: within one database, whatever happens to a validator, every later
\* validator is taken too, in the order of the list, and no exception leaves
\* the validator loop.
C2_LaterChecksDispatched ==
    /\ Handled => ~last.res.escaped
    /\ (pc \in {"exit", "databases"} /\ dispatched # <<>>) =>
          dispatched = [k \in 1..nvalidation |-> k]

\* The relation a comparison symbol stands for, over the integers.
Holds(sym, a, b) ==
    \/ sym = "="  /\ a = b
    \/ sym = "!=" /\ (a < b \/ b < a)
    \/ sym = ">"  /\ b < a
    \/ sym = ">=" /\ ~(a < b)
    \/ sym = "<"  /\ a < b
    \/ sym = "<=" /\ ~(b < a)

CountActual == last.resp.rows[1].items[1]

\* The query answered with a row whose first column is an integer, and the
\* target value is an integer.
CountComparable ==
    /\ Answered
    /\ last.resp.rows # <<>>
    /\ CountActual.t = "int"
    /\ last.v.value.t = "int"

\* C3: a COUNT_CHECK with one of the six symbols and comparable values
\* passes exactly when actual <op> target holds; with any other symbol it
\* fails; it never raises.
C3_CountCheckComparison ==
    IsCheck("COUNT_CHECK") =>
        /\ ~last.res.escaped
        /\ last.v.operator \notin OperatorSymbols => last.res.outcome = "fail"
        /\ (last.v.operator \in OperatorSymbols /\ CountComparable) =>
              (last.res.outcome = "pass"
                 <=> Holds(last.v.operator, CountActual.v, last.v.value.v))

C3_Witness ==
    /\ IsCheck("COUNT_CHECK")
    /\ last.v.operator = ">="
    /\ CountComparable
    /\ CountActual.v = last.v.value.v
    /\ last.res.outcome = "pass"

\* Expected tuple i occurs among the actual rows.
Occurs(i) ==
    \E j \in 1..Len(last.resp.rows) :
        last.resp.rows[j].items = last.v.values[i].items

\* C4: an INCLUDES_CHECK passes exactly when every expected tuple occurs
\* among the actual rows, whatever the order and the duplicates; when it
\* fails, the missing values are the expected tuples that do not occur.
C4_IncludesIsSetInclusion ==
    (IsCheck("INCLUDES_CHECK") /\ Answered) =>
        /\ last.res.outcome = "pass" <=> \A i \in 1..Len(last.v.values) : Occurs(i)
        /\ last.res.outcome # "pass" =>
              /\ last.res.outcome = "fail"
              /\ last.res.missing =
                    {PyTuple(last.v.values[i].items) :
                        i \in {k \in 1..Len(last.v.values) : ~Occurs(k)}}

\* A duplicated expected tuple, found once among rows that hold another
\* tuple first.
C4_Witness ==
    /\ IsCheck("INCLUDES_CHECK")
    /\ Answered
    /\ Len(last.v.values) = MaxRows
    /\ \A i \in 1..Len(last.v.values) : last.v.values[i] = last.v.values[1]
    /\ Len(last.resp.rows) = MaxRows
    /\ last.resp.rows[1].items # last.v.values[1].items
    /\ last.res.outcome = "pass"

\* The base tables of the schema the check queried.
ExistingTables ==
    IF last.res.schema \in Schemas THEN last.resp.catalog[last.res.schema] ELSE {}

\* C5: a TABLE_EXISTS passes exactly when no required table is absent from
\* the schema's base tables; when it fails, the missing list is the required
\* names that are absent, in the order of the list; an empty list passes.
C5_TableExistsMissingList ==
    (IsCheck("TABLE_EXISTS") /\ ~last.resp.err) =>
        /\ last.res.outcome = "pass"
              <=> \A i \in 1..Len(last.v.required_tables) :
                     last.v.required_tables[i] \in ExistingTables
        /\ last.res.outcome # "pass" =>
              /\ last.res.outcome = "fail"
              /\ last.res.missing_tables =
                    SelectSeq(last.v.required_tables,
                              LAMBDA t : t \notin ExistingTables)
        /\ last.v.required_tables = <<>> => last.res.outcome = "pass"

C5_Witness ==
    /\ IsCheck("TABLE_EXISTS")
    /\ ~last.resp.err
    /\ last.v.required_tables = <<"orders", "users">>
    /\ ExistingTables = {"orders"}
    /\ last.res.outcome = "fail"
    /\ last.res.missing_tables = <<"users">>

\* The query of the handled COUNT_CHECK returns no row.
CountNoRows == IsCheck("COUNT_CHECK") /\ Answered /\ last.resp.rows = <<>>

\* C6, as claimed: a COUNT_CHECK whose query returns no row fails with the
\* "no rows" diagnostic, whatever its operator symbol and value.
C6_NoRowsWhateverOperator ==
    CountNoRows =>
        /\ last.res.outcome = "fail"
        /\ last.res.diag = "no_rows"
        /\ ~last.res.escaped

\* C6, amended: a COUNT_CHECK whose query returns no row never raises and
\* fails; with one of the six symbols the diagnostic is "no rows"; with any
\* other symbol the query is not executed and the diagnostic is "unsupported
\* operator".
C6_NoRowsSupportedOperator ==
    CountNoRows =>
        /\ last.res.outcome = "fail"
        /\ ~last.res.escaped
        /\ last.v.operator \in OperatorSymbols =>
              last.res.queried /\ last.res.diag = "no_rows"
        /\ last.v.operator \notin OperatorSymbols =>
              ~last.res.queried /\ last.res.diag = "unsupported_operator"

C6_Witness ==
    /\ CountNoRows
    /\ last.v.operator \in OperatorSymbols
    /\ last.res.diag = "no_rows"

\* C7: a validator of an unknown or missing type issues no query, is
\* reported with a diagnostic, and the loop goes on.
C7_UnknownTypeReported ==
    (Handled /\ last.v.type \notin KnownTypes) =>
        /\ ~last.res.queried
        /\ last.res.log # <<>>
        /\ ~last.res.escaped

\* No entry read so far lacked a key main() subscripts (db["connection"],
\* a PRINTER's validator["query"]): the uncaught KeyError is how the run
\* meets such an entry.
ConfigWellFormed == exitReason # "uncaught"

\* C8: once a well-formed configuration is loaded the process ends with
\* status 0, whatever its checks return; without a configuration it ends
\* with a nonzero status before any database is contacted.
C8_ExitStatus ==
    pc = "exit" =>
        /\ (loaded /\ ConfigWellFormed) => exitCode = 0
        /\ ~loaded => exitCode # 0 /\ contacted = {}

\* C9: a connection is open only while its database's validators run: at
\* most one at a time, none between two databases, none when the run ends.
C9_ConnectionScoped ==
    /\ Cardinality(open) <= 1
    /\ pc \in {"validators", "validated"} => open = {dbi}
    /\ pc \in {"databases", "exit"} => open = {}

\* C10, as claimed: TABLE_EXISTS queries the schema the check names, else
\* the schema configured for the connection, else public.
C10_CheckSchemaFirst ==
    IsCheck("TABLE_EXISTS") =>
        last.res.schema =
            IF last.v.schema # Absent THEN last.v.schema
            ELSE IF last.conn_config.schema # Absent THEN last.conn_config.schema
            ELSE "public"

\* C10, amended: TABLE_EXISTS queries the schema under the connection's
\* "schema" key whenever the key is there, whatever the check names, and
\* public when the key is not there.
C10_ConnectionSchemaOnly ==
    IsCheck("TABLE_EXISTS") =>
        /\ last.res.queried
        /\ last.conn_config.schema = Absent => last.res.schema = "public"
        /\ last.conn_config.schema # Absent =>
              last.res.schema = last.conn_config.schema

C10_Witness ==
    /\ IsCheck("TABLE_EXISTS")
    /\ last.v.schema = "other"
    /\ last.conn_config.schema = "app"
    /\ last.res.schema = "app"

====
